---- MODULE Spec2Model ----
(***************************************************************************)
(* Model of the U2F authenticator core of u2f-core/src/lib.rs: the         *)
(* in-memory secret store, U2F::register, U2F::authenticate,               *)
(* U2F::is_valid_key_handle, the Service::call dispatcher and the          *)
(* response encoder Response::into_bytes.                                  *)
(*                                                                         *)
(* Every request is served to completion before the next one starts (the   *)
(* core holds the store through an exclusive reference), so one action is  *)
(* one whole call.  The answers of the collaborators that are not part of  *)
(* the core (the user-presence prompt, the operating system's random       *)
(* generator) are inputs of the actions.                                   *)
(***************************************************************************)
EXTENDS Integers, Sequences, FiniteSets, TLC

\* ------------------------------------------------------------------------
\* Bounds of the model
\* ------------------------------------------------------------------------

\* Stored counters are followed from 0 up to MaxCounter and, in a long-used
\* store, from U32_MAX - MaxCounter up to U32_MAX: a call is not taken when
\* it would leave a counter between the two windows.
MaxCounter == 2

\* ------------------------------------------------------------------------
\* Program constants
\* ------------------------------------------------------------------------

SW_NO_ERROR == 36864
SW_WRONG_DATA == 27264
SW_CONDITIONS_NOT_SATISFIED == 27013
SW_INS_NOT_SUPPORTED == 27904
SW_WRONG_LENGTH == 26368
SW_CLA_NOT_SUPPORTED == 28160
SW_UNKNOWN == 28416

\* u2f_header::U2F_MAX_KH_SIZE
MAX_KEY_HANDLE_LEN == 128

\* type SHA256Hash = [u8; 32]
SHA256HashLen == 32

\* PublicKey::from_raw: "Expected 65 bytes"
PublicKeyLen == 65

\* u2f_header::U2F_POINT_UNCOMPRESSED
U2F_POINT_UNCOMPRESSED == 4

\* pub type Counter = u32.  A u32 is kept as its two 16-bit halves
\* [hi, lo], standing for hi * 65536 + lo: the model checker's own integers
\* end below 2^31.
U16_MODULUS == 65536

\* The u32 of a number below 2^31
u32(n) == [hi |-> n \div U16_MODULUS, lo |-> n % U16_MODULUS]

\* u32::MAX
U32_MAX == [hi |-> U16_MODULUS - 1, lo |-> U16_MODULUS - 1]

\* a + 1 on u32, modulo 2^32
u32_wrapping_add1(a) ==
    IF a.lo < U16_MODULUS - 1 THEN [hi |-> a.hi, lo |-> a.lo + 1]
    ELSE IF a.hi < U16_MODULUS - 1 THEN [hi |-> a.hi + 1, lo |-> 0]
    ELSE [hi |-> 0, lo |-> 0]

\* a < b on u32
u32_lt(a, b) == a.hi < b.hi \/ (a.hi = b.hi /\ a.lo < b.lo)

\* ------------------------------------------------------------------------
\* Values
\* ------------------------------------------------------------------------

\* tests::ALL_ZERO_HASH
ALL_ZERO_HASH == [i \in 1..SHA256HashLen |-> 0]

\* A second 32-byte hash, differing from ALL_ZERO_HASH in its last byte.
OTHER_HASH == [i \in 1..SHA256HashLen |-> IF i = SHA256HashLen THEN 1 ELSE 0]

\* The application parameters the requests are drawn from.
ApplicationParameter == {ALL_ZERO_HASH, OTHER_HASH}

\* The challenge parameters the requests are drawn from.
ChallengeParameter == {ALL_ZERO_HASH, OTHER_HASH}

\* tests::all_zero_key_handle
all_zero_key_handle == [i \in 1..MAX_KEY_HANDLE_LEN |-> 0]

\* A full-length handle differing from the all-zero one in its last byte only.
last_byte_key_handle == [i \in 1..MAX_KEY_HANDLE_LEN |-> IF i = MAX_KEY_HANDLE_LEN THEN 1 ELSE 0]

\* A full-length handle differing from the all-zero one in its first byte only.
first_byte_key_handle == [i \in 1..MAX_KEY_HANDLE_LEN |-> IF i = 1 THEN 1 ELSE 0]

\* A handle one byte shorter than the generated ones (a prefix of the all-zero handle).
short_key_handle == [i \in 1..(MAX_KEY_HANDLE_LEN - 1) |-> 0]

\* impl Rand for KeyHandle: MAX_KEY_HANDLE_LEN random bytes.  The generator
\* may return any such string, the same one twice included; two of them
\* are enumerated.
GeneratedKeyHandle == {all_zero_key_handle, last_byte_key_handle}

\* The key handles a request may carry: the generated ones, one that no
\* registration returns, a shorter one and the empty one.
KeyHandle == GeneratedKeyHandle \cup {first_byte_key_handle, short_key_handle, << >>}

\* Private keys: the attestation key and the generated application keys.
ATTESTATION_KEY == 0
Key == {1, 2}

\* io::Result<bool> of the user-presence collaborator.
OkTrue == "Ok(true)"
OkFalse == "Ok(false)"
IoErr == "Err(io)"
IoResultBool == {OkTrue, OkFalse, IoErr}

\* io::Result<()> of UserPresence::wink.
IoResultUnit == {"Ok(())", IoErr}

\* What the operating system's random generator gives to one
\* generate_application_key call: OsRng::new() fails, or a key and a handle.
RngOutcome == {[ok |-> FALSE]} \cup
    {[ok |-> TRUE, key |-> k, handle |-> h] : k \in Key, h \in GeneratedKeyHandle}

\* Option<T>
None == [is_some |-> FALSE]
Some(v) == [is_some |-> TRUE, value |-> v]

\* HashMap::new()
EmptyMap == [a \in {} |-> 0]

\* HashMap::insert
MapInsert(m, k, v) == [a \in (DOMAIN m) \cup {k} |-> IF a = k THEN v ELSE m[a]]

\* ------------------------------------------------------------------------
\* Byte encodings
\* ------------------------------------------------------------------------

\* Mutant of write_u16_be: the two bytes in little-endian order.
write_u16_le(value) == << value % 256, (value \div 256) % 256 >>

\* WriteBytesExt::write_u16::<BigEndian>
write_u16_be(value) == << (value \div 256) % 256, value % 256 >>

\* Mutant of write_u32_be: the bytes are written in little-endian order.
write_u32_le(value) ==
    << value.lo % 256, (value.lo \div 256) % 256,
       value.hi % 256, (value.hi \div 256) % 256 >>

\* WriteBytesExt::write_u32::<BigEndian>
write_u32_be(value) ==
    << (value.hi \div 256) % 256, value.hi % 256,
       (value.lo \div 256) % 256, value.lo % 256 >>

StatusCode_write(status) ==
    LET value == CASE status = "NoError" -> SW_NO_ERROR
                   [] status = "TestOfUserPresenceNotSatisfied" -> SW_CONDITIONS_NOT_SATISFIED
                   [] status = "InvalidKeyHandle" -> SW_WRONG_DATA
                   [] status = "RequestLengthInvalid" -> SW_WRONG_LENGTH
                   [] status = "RequestClassNotSupported" -> SW_CLA_NOT_SUPPORTED
                   [] status = "RequestInstructionNotSuppored" -> SW_INS_NOT_SUPPORTED
                   [] status = "UnknownError" -> SW_UNKNOWN
    IN write_u16_be(value)

user_presence_byte(user_present) ==
    LET byte == 0
    IN IF user_present THEN byte + 1 ELSE byte

\* Mutant of message_to_sign_for_authenticate: the counter is written in
\* little-endian order.
message_to_sign_for_authenticate_le(application, challenge, user_presence, counter) ==
    application \o << user_presence >>
        \o << counter.lo % 256, (counter.lo \div 256) % 256,
              counter.hi % 256, (counter.hi \div 256) % 256 >>
        \o challenge

message_to_sign_for_authenticate(application, challenge, user_presence, counter) ==
    application \o << user_presence >> \o write_u32_be(counter) \o challenge

\* Mutant of message_to_sign_for_register: the public key is appended
\* before the key handle.
message_to_sign_for_register_swapped(application, challenge, key_bytes, key_handle) ==
    << 0 >> \o application \o challenge \o key_bytes \o key_handle

message_to_sign_for_register(application, challenge, key_bytes, key_handle) ==
    << 0 >> \o application \o challenge \o key_handle \o key_bytes

\* ------------------------------------------------------------------------
\* Crypto operations (SecureCryptoOperations)
\* ------------------------------------------------------------------------

\* A signature is kept as the pair it is a signature of: the signing key and
\* the signed message (SignError has no value, so signing never fails).
sign(key, data) == [signer |-> key, message |-> data]

attest(data) == sign(ATTESTATION_KEY, data)

get_attestation_certificate == "AttestationCertificate"

\* PublicKey::from_key then PublicKey::to_raw: 65 bytes, the first one 0x04;
\* the coordinates are stood for by the identity of the key.
public_key_to_raw(key) ==
    [i \in 1..PublicKeyLen |-> IF i = 1 THEN U2F_POINT_UNCOMPRESSED ELSE key]

generate_application_key(application, rng) ==
    IF rng.ok
    THEN [ok |-> TRUE,
          value |-> [application |-> application, handle |-> rng.handle, key |-> rng.key]]
    ELSE [ok |-> FALSE]

\* RawSignature::as_ref: the DER bytes of a signature, stood for by a
\* SEQUENCE header and the identity of the signing key.
Signature_as_ref(signature) == << 48, signature.signer >>

\* AttestationCertificate::to_der, stood for by a SEQUENCE header.
AttestationCertificate_to_der(certificate) == << 48, 130 >>

\* ------------------------------------------------------------------------
\* Key handles and the in-memory secret store
\* ------------------------------------------------------------------------

\* Mutant of slices_equal: the loop stops one position early.
slices_equal_skips_last(a, b) ==
    LET differing == {i \in 1..(Len(a) - 1) : a[i] # b[i]}
    IN IF differing = {} THEN 1 ELSE 0

\* subtle::slices_equal: the byte pairs of all positions are combined (x |= a ^ b),
\* whatever the earlier pairs gave; 1 iff no pair differed.
slices_equal(a, b) ==
    LET differing == {i \in 1..Len(a) : a[i] # b[i]}
    IN IF differing = {} THEN 1 ELSE 0

\* Mutant of eq_consttime: only the lengths are compared.
eq_consttime_len_only(self, other) == Len(self) = Len(other)

eq_consttime(self, other) ==
    Len(self) = Len(other) /\ slices_equal(self, other) = 1

\* Mutant of add_application_key: an existing credential of the application
\* is kept (entry().or_insert() instead of insert()).
add_application_key_keep_first(keys, key) ==
    IF key.application \in DOMAIN keys THEN keys
    ELSE MapInsert(keys, key.application, key)

add_application_key(keys, key) == MapInsert(keys, key.application, key)

\* Mutant of get_then_increment_counter: every stored counter is incremented.
get_then_increment_counter_all(cs, application) ==
    IF application \in DOMAIN cs
    THEN [value |-> cs[application],
          counters |-> [a \in DOMAIN cs |-> u32_wrapping_add1(cs[a])],
          overflowed |-> cs[application] = U32_MAX]
    ELSE LET initial_counter == u32(0)
         IN [value |-> initial_counter,
             counters |-> MapInsert([a \in DOMAIN cs |-> u32_wrapping_add1(cs[a])],
                                    application, initial_counter),
             overflowed |-> FALSE]

\* `*counter += 1` on a u32: the sum is kept modulo 2^32 and overflowed tells
\* that it wrapped (what the build does then is decided where the call is served).
get_then_increment_counter(cs, application) ==
    IF application \in DOMAIN cs
    THEN [value |-> cs[application],
          counters |-> [cs EXCEPT ![application] = u32_wrapping_add1(cs[application])],
          overflowed |-> cs[application] = U32_MAX]
    ELSE LET initial_counter == u32(0)
         IN [value |-> initial_counter,
             counters |-> MapInsert(cs, application, initial_counter),
             overflowed |-> FALSE]

\* Mutant of retrieve_application_key: the credential is looked up by its
\* handle among the credentials of all applications.
retrieve_application_key_by_handle(keys, application, handle) ==
    LET holders == {a \in DOMAIN keys : keys[a].handle = handle}
    IN IF holders = {} THEN None ELSE Some(keys[CHOOSE a \in holders : TRUE])

\* Mutant of retrieve_application_key: the application's credential is
\* returned whatever handle is presented.
retrieve_application_key_any_handle(keys, application, handle) ==
    IF application \in DOMAIN keys THEN Some(keys[application]) ELSE None

retrieve_application_key(keys, application, handle) ==
    IF application \in DOMAIN keys
    THEN IF eq_consttime(keys[application].handle, handle)
         THEN Some(keys[application])
         ELSE None
    ELSE None

\* ------------------------------------------------------------------------
\* The authenticator core (impl U2F)
\* ------------------------------------------------------------------------

\* Result::Err of RegisterError / AuthenticateError
Err(kind) == [kind |-> kind]

\* Mutant of authenticate: the answer of approve_authentication is dropped,
\* only its I/O error is looked at.
authenticate_unapproved(keys, cs, application, challenge, key_handle, approve) ==
    LET found == retrieve_application_key(keys, application, key_handle)
    IN IF ~found.is_some
       THEN [result |-> Err("InvalidKeyHandle"), counters |-> cs, overflowed |-> FALSE,
             trace |-> << "retrieve_application_key" >>]
       ELSE IF approve = IoErr
       THEN [result |-> Err("Io"), counters |-> cs, overflowed |-> FALSE,
             trace |-> << "retrieve_application_key", "approve_authentication" >>]
       ELSE LET got == get_then_increment_counter(cs, application)
                signature == sign(found.value.key,
                                  message_to_sign_for_authenticate(
                                      application, challenge,
                                      user_presence_byte(TRUE), got.value))
            IN [result |-> [kind |-> "Authentication", counter |-> got.value,
                            signature |-> signature, user_present |-> TRUE],
                counters |-> got.counters, overflowed |-> got.overflowed,
                trace |-> << "retrieve_application_key", "approve_authentication",
                             "get_then_increment_counter", "sign" >>]

\* Mutant of authenticate: the counter is read and incremented before the
\* user is asked.
authenticate_counts_first(keys, cs, application, challenge, key_handle, approve) ==
    LET found == retrieve_application_key(keys, application, key_handle)
        got == get_then_increment_counter(cs, application)
    IN IF ~found.is_some
       THEN [result |-> Err("InvalidKeyHandle"), counters |-> cs, overflowed |-> FALSE,
             trace |-> << "retrieve_application_key" >>]
       ELSE IF approve = IoErr
       THEN [result |-> Err("Io"), counters |-> got.counters, overflowed |-> got.overflowed,
             trace |-> << "retrieve_application_key", "get_then_increment_counter",
                          "approve_authentication" >>]
       ELSE IF approve = OkFalse
       THEN [result |-> Err("ApprovalRequired"), counters |-> got.counters, overflowed |-> got.overflowed,
             trace |-> << "retrieve_application_key", "get_then_increment_counter",
                          "approve_authentication" >>]
       ELSE [result |-> [kind |-> "Authentication", counter |-> got.value,
                         signature |-> sign(found.value.key,
                                            message_to_sign_for_authenticate(
                                                application, challenge,
                                                user_presence_byte(TRUE), got.value)),
                         user_present |-> TRUE],
             counters |-> got.counters, overflowed |-> got.overflowed,
             trace |-> << "retrieve_application_key", "get_then_increment_counter",
                          "approve_authentication", "sign" >>]

\* Mutant of authenticate: the user is asked before the key handle is
\* looked up.
authenticate_approves_first(keys, cs, application, challenge, key_handle, approve) ==
    LET found == retrieve_application_key(keys, application, key_handle)
    IN IF approve = IoErr
       THEN [result |-> Err("Io"), counters |-> cs, overflowed |-> FALSE,
             trace |-> << "approve_authentication" >>]
       ELSE IF approve = OkFalse
       THEN [result |-> Err("ApprovalRequired"), counters |-> cs, overflowed |-> FALSE,
             trace |-> << "approve_authentication" >>]
       ELSE IF ~found.is_some
       THEN [result |-> Err("InvalidKeyHandle"), counters |-> cs, overflowed |-> FALSE,
             trace |-> << "approve_authentication", "retrieve_application_key" >>]
       ELSE LET application_key == found.value
                user_present == TRUE
                got == get_then_increment_counter(cs, application)
                counter == got.value
                signature == sign(application_key.key,
                                  message_to_sign_for_authenticate(
                                      application, challenge,
                                      user_presence_byte(user_present), counter))
            IN [result |-> [kind |-> "Authentication", counter |-> counter,
                            signature |-> signature, user_present |-> user_present],
                counters |-> got.counters, overflowed |-> got.overflowed,
                trace |-> << "approve_authentication", "retrieve_application_key",
                             "get_then_increment_counter", "sign" >>]

\* U2F::authenticate.  Gives the result, the counters after the call and
\* the collaborator calls made, in order.
authenticate(keys, cs, application, challenge, key_handle, approve) ==
    LET found == retrieve_application_key(keys, application, key_handle)
    IN IF ~found.is_some
       THEN [result |-> Err("InvalidKeyHandle"), counters |-> cs, overflowed |-> FALSE,
             trace |-> << "retrieve_application_key" >>]
       ELSE IF approve = IoErr
       THEN [result |-> Err("Io"), counters |-> cs, overflowed |-> FALSE,
             trace |-> << "retrieve_application_key", "approve_authentication" >>]
       ELSE IF approve = OkFalse
       THEN [result |-> Err("ApprovalRequired"), counters |-> cs, overflowed |-> FALSE,
             trace |-> << "retrieve_application_key", "approve_authentication" >>]
       ELSE LET application_key == found.value
                user_present == TRUE
                got == get_then_increment_counter(cs, application)
                counter == got.value
                signature == sign(application_key.key,
                                  message_to_sign_for_authenticate(
                                      application, challenge,
                                      user_presence_byte(user_present), counter))
            IN [result |-> [kind |-> "Authentication", counter |-> counter,
                            signature |-> signature, user_present |-> user_present],
                counters |-> got.counters, overflowed |-> got.overflowed,
                trace |-> << "retrieve_application_key", "approve_authentication",
                             "get_then_increment_counter", "sign" >>]

\* U2F::get_version_string: String::from("U2F_V2"), as its ASCII bytes.
get_version_string == << 85, 50, 70, 95, 86, 50 >>

\* U2F::is_valid_key_handle
is_valid_key_handle(keys, key_handle, application) ==
    retrieve_application_key(keys, application, key_handle).is_some

\* Mutant of register: the credential is generated and stored before the
\* user is asked.
register_stores_first(keys, application, challenge, approve, rng) ==
    LET generated == generate_application_key(application, rng)
    IN IF ~generated.ok
       THEN [result |-> Err("Io"), application_keys |-> keys,
             trace |-> << "generate_application_key" >>]
       ELSE LET application_key == generated.value
                stored == add_application_key(keys, application_key)
                public_key_bytes == public_key_to_raw(application_key.key)
            IN IF approve = IoErr
               THEN [result |-> Err("Io"), application_keys |-> stored,
                     trace |-> << "generate_application_key", "add_application_key",
                                  "approve_registration" >>]
               ELSE IF approve = OkFalse
               THEN [result |-> Err("ApprovalRequired"), application_keys |-> stored,
                     trace |-> << "generate_application_key", "add_application_key",
                                  "approve_registration" >>]
               ELSE [result |-> [kind |-> "Registration",
                                 user_public_key |-> public_key_bytes,
                                 key_handle |-> application_key.handle,
                                 attestation_certificate |-> get_attestation_certificate,
                                 signature |-> attest(message_to_sign_for_register(
                                                   application_key.application, challenge,
                                                   public_key_bytes, application_key.handle))],
                     application_keys |-> stored,
                     trace |-> << "generate_application_key", "add_application_key",
                                  "approve_registration", "attest",
                                  "get_attestation_certificate" >>]

\* Mutant of register: an I/O error of the approval is reported after the
\* credential was generated and stored.
register_reports_io_late(keys, application, challenge, approve, rng) ==
    IF approve = OkFalse
    THEN [result |-> Err("ApprovalRequired"), application_keys |-> keys,
          trace |-> << "approve_registration" >>]
    ELSE LET generated == generate_application_key(application, rng)
         IN IF ~generated.ok
            THEN [result |-> Err("Io"), application_keys |-> keys,
                  trace |-> << "approve_registration", "generate_application_key" >>]
            ELSE IF approve = IoErr
            THEN [result |-> Err("Io"),
                  application_keys |-> add_application_key(keys, generated.value),
                  trace |-> << "approve_registration", "generate_application_key",
                               "add_application_key" >>]
            ELSE LET application_key == generated.value
                     public_key_bytes == public_key_to_raw(application_key.key)
                     signature == attest(message_to_sign_for_register(
                                             application_key.application, challenge,
                                             public_key_bytes, application_key.handle))
                 IN [result |-> [kind |-> "Registration",
                                 user_public_key |-> public_key_bytes,
                                 key_handle |-> application_key.handle,
                                 attestation_certificate |-> get_attestation_certificate,
                                 signature |-> signature],
                     application_keys |-> add_application_key(keys, application_key),
                     trace |-> << "approve_registration", "generate_application_key",
                                  "add_application_key", "attest",
                                  "get_attestation_certificate" >>]

\* Mutant of register: the credential is stored under the challenge
\* parameter instead of the application parameter.
register_keys_by_challenge(keys, application, challenge, approve, rng) ==
    IF approve = IoErr
    THEN [result |-> Err("Io"), application_keys |-> keys,
          trace |-> << "approve_registration" >>]
    ELSE IF approve = OkFalse
    THEN [result |-> Err("ApprovalRequired"), application_keys |-> keys,
          trace |-> << "approve_registration" >>]
    ELSE LET generated == generate_application_key(application, rng)
         IN IF ~generated.ok
            THEN [result |-> Err("Io"), application_keys |-> keys,
                  trace |-> << "approve_registration", "generate_application_key" >>]
            ELSE LET application_key == generated.value
                     public_key_bytes == public_key_to_raw(application_key.key)
                     signature == attest(message_to_sign_for_register(
                                             application_key.application, challenge,
                                             public_key_bytes, application_key.handle))
                 IN [result |-> [kind |-> "Registration",
                                 user_public_key |-> public_key_bytes,
                                 key_handle |-> application_key.handle,
                                 attestation_certificate |-> get_attestation_certificate,
                                 signature |-> signature],
                     application_keys |-> add_application_key(keys, [application_key EXCEPT !.application = challenge]),
                     trace |-> << "approve_registration", "generate_application_key",
                                  "add_application_key", "attest",
                                  "get_attestation_certificate" >>]

\* U2F::register.  Gives the result, the credentials after the call and the
\* collaborator calls made, in order.
register(keys, application, challenge, approve, rng) ==
    IF approve = IoErr
    THEN [result |-> Err("Io"), application_keys |-> keys,
          trace |-> << "approve_registration" >>]
    ELSE IF approve = OkFalse
    THEN [result |-> Err("ApprovalRequired"), application_keys |-> keys,
          trace |-> << "approve_registration" >>]
    ELSE LET generated == generate_application_key(application, rng)
         IN IF ~generated.ok
            THEN [result |-> Err("Io"), application_keys |-> keys,
                  trace |-> << "approve_registration", "generate_application_key" >>]
            ELSE LET application_key == generated.value
                     public_key_bytes == public_key_to_raw(application_key.key)
                     signature == attest(message_to_sign_for_register(
                                             application_key.application, challenge,
                                             public_key_bytes, application_key.handle))
                 IN [result |-> [kind |-> "Registration",
                                 user_public_key |-> public_key_bytes,
                                 key_handle |-> application_key.handle,
                                 attestation_certificate |-> get_attestation_certificate,
                                 signature |-> signature],
                     application_keys |-> add_application_key(keys, application_key),
                     trace |-> << "approve_registration", "generate_application_key",
                                  "add_application_key", "attest",
                                  "get_attestation_certificate" >>]

\* U2F::wink
wink(winked) == winked

\* ------------------------------------------------------------------------
\* Requests and the service (impl Service for U2F)
\* ------------------------------------------------------------------------

AuthenticateControlCode ==
    {"CheckOnly", "EnforceUserPresenceAndSign", "DontEnforceUserPresenceAndSign"}

\* enum Request
Request ==
    {[kind |-> "Register", application |-> a, challenge |-> c] :
        a \in ApplicationParameter, c \in ChallengeParameter}
    \cup {[kind |-> "Authenticate", application |-> a, challenge |-> c,
           control_code |-> cc, key_handle |-> h] :
        a \in ApplicationParameter, c \in ChallengeParameter,
        cc \in AuthenticateControlCode, h \in KeyHandle}
    \cup {[kind |-> "GetVersion"], [kind |-> "Wink"]}

REGISTER_COMMAND_CODE == 1
AUTHENTICATE_COMMAND_CODE == 2
VERSION_COMMAND_CODE == 3
AUTH_ENFORCE == 3
AUTH_CHECK_ONLY == 7
AUTH_FLAG_TUP == 1

\* The length an absent-or-zero two-byte length field stands for.
MAX_EXTENDED_LEN == 65535

\* Outcomes of Request::decode: Ok(request), Err(()), or a panic (a failed
\* unwrap, a failed assertion, or panic!) with the line it comes from.
DecodeOk(request) == [kind |-> "Ok", request |-> request]
DecodeErr == [kind |-> "Err"]
DecodePanic(at) == [kind |-> "Panic", at |-> at]

\* read_u16::<BigEndian> at the two bytes after position, 0 standing for 65535.
read_length(data, position) ==
    LET value == data[position + 1] * 256 + data[position + 2]
    IN IF value = 0 THEN MAX_EXTENDED_LEN ELSE value

\* Request::decode, Lc: the length of the request data and the cursor
\* position after the field.
decode_lc(data) ==
    LET remaining_len == Len(data) - 4
    IN IF remaining_len = 3 THEN [kind |-> "Ok", request_data_len |-> 0, position |-> 4]
       ELSE IF remaining_len < 1 THEN DecodePanic("read_u8().unwrap() of Lc")
       ELSE IF data[5] # 0 THEN DecodePanic("assert_eq!(zero_byte, 0) of Lc")
       ELSE IF remaining_len < 3 THEN DecodePanic("read_u16().unwrap() of Lc")
       ELSE [kind |-> "Ok", request_data_len |-> read_length(data, 5), position |-> 7]

\* Request::decode, Le: the maximum response length, read from the bytes
\* left after the request data.
decode_le(data, position) ==
    LET remaining_len == Len(data) - position
    IN CASE remaining_len = 0 -> [kind |-> "Ok", max_response_data_len |-> 0]
         [] remaining_len = 2 ->
              [kind |-> "Ok", max_response_data_len |-> read_length(data, position)]
         [] remaining_len = 3 ->
              IF data[position + 1] # 0 THEN DecodePanic("assert_eq!(zero_byte, 0) of Le")
              ELSE [kind |-> "Ok", max_response_data_len |-> read_length(data, position + 1)]
         [] OTHER -> DecodeErr

\* Request::decode, REGISTER_COMMAND_CODE arm.
decode_register(request_data) ==
    IF Len(request_data) < SHA256HashLen
        THEN DecodePanic("read_exact(challenge_parameter).unwrap()")
    ELSE IF Len(request_data) < 2 * SHA256HashLen
        THEN DecodePanic("read_exact(application_parameter).unwrap()")
    ELSE IF Len(request_data) # 2 * SHA256HashLen
        THEN DecodePanic("assert_eq!(reader.position(), request_data_len)")
    ELSE DecodeOk([kind |-> "Register",
                   application |-> SubSeq(request_data, SHA256HashLen + 1, 2 * SHA256HashLen),
                   challenge |-> SubSeq(request_data, 1, SHA256HashLen)])

\* Request::decode, the match on the control byte.  The third arm is the
\* or-pattern AUTH_ENFORCE | AUTH_FLAG_TUP: it matches 0x03 or 0x01, and
\* 0x03 is taken by the arm before it.
decode_control_code(parameter1) ==
    CASE parameter1 = AUTH_CHECK_ONLY -> Some("CheckOnly")
      [] parameter1 = AUTH_ENFORCE -> Some("EnforceUserPresenceAndSign")
      [] parameter1 = AUTH_ENFORCE \/ parameter1 = AUTH_FLAG_TUP ->
             Some("DontEnforceUserPresenceAndSign")
      [] OTHER -> None

\* Request::decode, AUTHENTICATE_COMMAND_CODE arm.
decode_authenticate(parameter1, parameter2, request_data) ==
    LET control_code == decode_control_code(parameter1)
        key_handle_len == request_data[2 * SHA256HashLen + 1]
        key_handle_start == 2 * SHA256HashLen + 1
    IN IF parameter2 # 0 THEN DecodePanic("assert_eq!(parameter2, 0)")
       ELSE IF control_code = None THEN DecodePanic("panic!(Unknown control code)")
       ELSE IF Len(request_data) < SHA256HashLen
           THEN DecodePanic("read_exact(challenge_parameter).unwrap()")
       ELSE IF Len(request_data) < 2 * SHA256HashLen
           THEN DecodePanic("read_exact(application_parameter).unwrap()")
       ELSE IF Len(request_data) < key_handle_start
           THEN DecodePanic("read_u8().unwrap() of key_handle_len")
       ELSE IF Len(request_data) < key_handle_start + key_handle_len
           THEN DecodePanic("read_exact(key_handle_bytes).unwrap()")
       ELSE IF key_handle_len > MAX_KEY_HANDLE_LEN
           THEN DecodePanic("assert!(bytes.len() <= MAX_KEY_HANDLE_LEN)")
       ELSE DecodeOk([kind |-> "Authenticate",
                      application |-> SubSeq(request_data, SHA256HashLen + 1, 2 * SHA256HashLen),
                      challenge |-> SubSeq(request_data, 1, SHA256HashLen),
                      control_code |-> control_code.value,
                      key_handle |-> SubSeq(request_data, key_handle_start + 1,
                                            key_handle_start + key_handle_len)])

\* Request::decode, VERSION_COMMAND_CODE arm.
decode_version(parameter1, parameter2, request_data_len) ==
    IF parameter1 # 0 THEN DecodePanic("assert_eq!(parameter1, 0)")
    ELSE IF parameter2 # 0 THEN DecodePanic("assert_eq!(parameter2, 0)")
    ELSE IF request_data_len # 0 THEN DecodePanic("assert_eq!(request_data_len, 0)")
    ELSE DecodeOk([kind |-> "GetVersion"])

\* Request::decode
decode(data) ==
    IF Len(data) < 4 THEN DecodePanic("read_u8().unwrap() of the header")
    ELSE
    LET command_code == data[2]
        parameter1 == data[3]
        parameter2 == data[4]
        lc == decode_lc(data)
    IN IF lc.kind # "Ok" THEN lc
       ELSE IF lc.position + lc.request_data_len > Len(data)
           THEN DecodePanic("read_exact(request_data).unwrap()")
       ELSE
       LET request_data == SubSeq(data, lc.position + 1, lc.position + lc.request_data_len)
           le == decode_le(data, lc.position + lc.request_data_len)
       IN IF le.kind # "Ok" THEN le
          ELSE CASE command_code = REGISTER_COMMAND_CODE -> decode_register(request_data)
                 [] command_code = AUTHENTICATE_COMMAND_CODE ->
                        decode_authenticate(parameter1, parameter2, request_data)
                 [] command_code = VERSION_COMMAND_CODE ->
                        decode_version(parameter1, parameter2, lc.request_data_len)
                 [] OTHER -> DecodePanic("panic!(Not implemented)")

\* futures::finished(response) / futures::failed(error)
finished(response) == [future |-> "finished", response |-> response]
failed == [future |-> "failed"]

\* The service's outcome for a request that leaves the store alone.
Untouched(keys, cs, outcome, trace) ==
    [outcome |-> outcome, application_keys |-> keys, counters |-> cs,
     overflowed |-> FALSE, trace |-> trace]

\* Service::call.  env holds what the collaborators answer if asked:
\* env.approve (user presence), env.rng (key generation), env.wink.
\* Each arm of the match on the request is an operator of its own.

\* Mutant of call_register: a successful registration drops the counter of
\* the application.
call_register_resets_counter(keys, cs, req, env) ==
    LET r == register(keys, req.application, req.challenge, env.approve, env.rng)
        outcome ==
            CASE r.result.kind = "Registration" ->
                   finished([kind |-> "Registration",
                             user_public_key |-> r.result.user_public_key,
                             key_handle |-> r.result.key_handle,
                             attestation_certificate |-> r.result.attestation_certificate,
                             signature |-> r.result.signature])
              [] r.result.kind = "ApprovalRequired" ->
                   finished([kind |-> "TestOfUserPresenceNotSatisfied"])
              [] r.result.kind = "Io" -> failed
              [] r.result.kind = "Signing" -> failed
    IN [outcome |-> outcome, application_keys |-> r.application_keys,
        counters |-> IF r.result.kind = "Registration"
                     THEN [a \in DOMAIN cs \ {req.application} |-> cs[a]]
                     ELSE cs,
        overflowed |-> FALSE, trace |-> r.trace]

\* Request::Register
call_register(keys, cs, req, env) ==
    LET r == register(keys, req.application, req.challenge, env.approve, env.rng)
        outcome ==
            CASE r.result.kind = "Registration" ->
                   finished([kind |-> "Registration",
                             user_public_key |-> r.result.user_public_key,
                             key_handle |-> r.result.key_handle,
                             attestation_certificate |-> r.result.attestation_certificate,
                             signature |-> r.result.signature])
              [] r.result.kind = "ApprovalRequired" ->
                   finished([kind |-> "TestOfUserPresenceNotSatisfied"])
              [] r.result.kind = "Io" -> failed
              [] r.result.kind = "Signing" -> failed
    IN [outcome |-> outcome, application_keys |-> r.application_keys,
        counters |-> cs, overflowed |-> FALSE, trace |-> r.trace]

\* Mutant of call_check_only: the two arms of the validity test are swapped.
call_check_only_swapped(keys, cs, req, env) ==
    IF is_valid_key_handle(keys, req.key_handle, req.application)
    THEN Untouched(keys, cs, finished([kind |-> "InvalidKeyHandle"]),
                   << "retrieve_application_key" >>)
    ELSE Untouched(keys, cs, finished([kind |-> "TestOfUserPresenceNotSatisfied"]),
                   << "retrieve_application_key" >>)

\* Mutant of call_check_only: validity is tested by a full authenticate.
call_check_only_authenticates(keys, cs, req, env) ==
    LET r == authenticate(keys, cs, req.application, req.challenge,
                          req.key_handle, env.approve)
    IN [outcome |-> IF r.result.kind = "InvalidKeyHandle"
                    THEN finished([kind |-> "InvalidKeyHandle"])
                    ELSE finished([kind |-> "TestOfUserPresenceNotSatisfied"]),
        application_keys |-> keys, counters |-> r.counters,
        overflowed |-> r.overflowed, trace |-> r.trace]

\* AuthenticateControlCode::CheckOnly (InMemoryStorage::retrieve_application_key
\* never returns Err, so the Err arm is not taken)
call_check_only(keys, cs, req, env) ==
    IF is_valid_key_handle(keys, req.key_handle, req.application)
    THEN Untouched(keys, cs, finished([kind |-> "TestOfUserPresenceNotSatisfied"]),
                   << "retrieve_application_key" >>)
    ELSE Untouched(keys, cs, finished([kind |-> "InvalidKeyHandle"]),
                   << "retrieve_application_key" >>)

\* Mutant of call_enforce: an I/O error of authenticate fails the future, as
\* in the Register arm.
call_enforce_propagates(keys, cs, req, env) ==
    LET r == authenticate(keys, cs, req.application, req.challenge,
                          req.key_handle, env.approve)
        outcome ==
            CASE r.result.kind = "Authentication" ->
                   finished([kind |-> "Authentication",
                             counter |-> r.result.counter,
                             signature |-> r.result.signature,
                             user_present |-> r.result.user_present])
              [] r.result.kind = "ApprovalRequired" ->
                   finished([kind |-> "TestOfUserPresenceNotSatisfied"])
              [] r.result.kind = "InvalidKeyHandle" ->
                   finished([kind |-> "InvalidKeyHandle"])
              [] r.result.kind = "Io" -> failed
              [] r.result.kind = "Signing" -> failed
    IN [outcome |-> outcome, application_keys |-> keys,
        counters |-> r.counters, overflowed |-> r.overflowed, trace |-> r.trace]

\* AuthenticateControlCode::EnforceUserPresenceAndSign
call_enforce(keys, cs, req, env) ==
    LET r == authenticate(keys, cs, req.application, req.challenge,
                          req.key_handle, env.approve)
        outcome ==
            CASE r.result.kind = "Authentication" ->
                   finished([kind |-> "Authentication",
                             counter |-> r.result.counter,
                             signature |-> r.result.signature,
                             user_present |-> r.result.user_present])
              [] r.result.kind = "ApprovalRequired" ->
                   finished([kind |-> "TestOfUserPresenceNotSatisfied"])
              [] r.result.kind = "InvalidKeyHandle" ->
                   finished([kind |-> "InvalidKeyHandle"])
              [] r.result.kind = "Io" -> finished([kind |-> "UnknownError"])
              [] r.result.kind = "Signing" -> finished([kind |-> "UnknownError"])
    IN [outcome |-> outcome, application_keys |-> keys,
        counters |-> r.counters, overflowed |-> r.overflowed, trace |-> r.trace]

\* Mutant of call_dont_enforce: the request is served like
\* EnforceUserPresenceAndSign.
call_dont_enforce_signs(keys, cs, req, env) ==
    LET r == authenticate(keys, cs, req.application, req.challenge,
                          req.key_handle, env.approve)
    IN [outcome |-> IF r.result.kind = "Authentication"
                    THEN finished([kind |-> "Authentication",
                                   counter |-> r.result.counter,
                                   signature |-> r.result.signature,
                                   user_present |-> r.result.user_present])
                    ELSE finished([kind |-> "TestOfUserPresenceNotSatisfied"]),
        application_keys |-> keys, counters |-> r.counters,
        overflowed |-> r.overflowed, trace |-> r.trace]

\* AuthenticateControlCode::DontEnforceUserPresenceAndSign
call_dont_enforce(keys, cs, req, env) ==
    Untouched(keys, cs, finished([kind |-> "TestOfUserPresenceNotSatisfied"]), << >>)

\* Request::GetVersion
call_get_version(keys, cs, req, env) ==
    Untouched(keys, cs,
              finished([kind |-> "Version", version_string |-> get_version_string]),
              << >>)

\* Request::Wink
call_wink(keys, cs, req, env) ==
    IF wink(env.wink) = IoErr
    THEN Untouched(keys, cs, finished([kind |-> "UnknownError"]), << "wink" >>)
    ELSE Untouched(keys, cs, finished([kind |-> "DidWink"]), << "wink" >>)

call(keys, cs, req, env) ==
    CASE req.kind = "Register" -> call_register(keys, cs, req, env)
      [] req.kind = "Authenticate" /\ req.control_code = "CheckOnly" ->
           call_check_only(keys, cs, req, env)
      [] req.kind = "Authenticate" /\ req.control_code = "EnforceUserPresenceAndSign" ->
           call_enforce(keys, cs, req, env)
      [] req.kind = "Authenticate" /\ req.control_code = "DontEnforceUserPresenceAndSign" ->
           call_dont_enforce(keys, cs, req, env)
      [] req.kind = "GetVersion" -> call_get_version(keys, cs, req, env)
      [] req.kind = "Wink" -> call_wink(keys, cs, req, env)

\* Response::into_bytes
into_bytes(self) ==
    CASE self.kind = "Registration" ->
           << 5 >> \o self.user_public_key \o << Len(self.key_handle) % 256 >>
                \o self.key_handle
                \o AttestationCertificate_to_der(self.attestation_certificate)
                \o Signature_as_ref(self.signature) \o StatusCode_write("NoError")
      [] self.kind = "Authentication" ->
           << user_presence_byte(self.user_present) >> \o write_u32_be(self.counter)
                \o Signature_as_ref(self.signature) \o StatusCode_write("NoError")
      [] self.kind = "Version" ->
           self.version_string \o StatusCode_write("NoError")
      [] self.kind = "DidWink" -> StatusCode_write("NoError")
      [] self.kind = "TestOfUserPresenceNotSatisfied" ->
           StatusCode_write("TestOfUserPresenceNotSatisfied")
      [] self.kind = "InvalidKeyHandle" -> StatusCode_write("InvalidKeyHandle")
      [] self.kind = "UnknownError" -> StatusCode_write("UnknownError")

\* ------------------------------------------------------------------------
\* State
\* ------------------------------------------------------------------------

VARIABLES
    application_keys,   \* InMemoryStorage::application_keys
    counters,           \* InMemoryStorage::counters
    last,               \* the call just served and not yet taken by the caller: operation,
                        \* arguments, collaborator answers, outcome; Idle when there is none
    returned            \* per application, the counters of its successful authentications, in order

vars == << application_keys, counters, last, returned >>

\* The collaborator answers a request may meet.  The branch of call that
\* serves a request kind has no path to some collaborators (key generation
\* for Authenticate, user presence for Wink, ...): for those one answer is
\* enumerated, for the others all of them.
Env(req) ==
    CASE req.kind = "Register" ->
           [approve : IoResultBool, rng : RngOutcome, wink : {"Ok(())"}]
      [] req.kind = "Authenticate" ->
           [approve : IoResultBool, rng : {[ok |-> FALSE]}, wink : {"Ok(())"}]
      [] req.kind = "GetVersion" ->
           [approve : {OkFalse}, rng : {[ok |-> FALSE]}, wink : {"Ok(())"}]
      [] req.kind = "Wink" ->
           [approve : {OkFalse}, rng : {[ok |-> FALSE]}, wink : IoResultUnit]

\* Every stored counter is in one of the two windows that are followed.
WithinBound(cs) ==
    \A a \in DOMAIN cs :
        \/ cs[a].hi = 0 /\ cs[a].lo <= MaxCounter
        \/ cs[a].hi = U32_MAX.hi /\ cs[a].lo >= U32_MAX.lo - MaxCounter

\* What a build makes of a call whose `*counter += 1` overflowed: without
\* overflow checks (release profile) the call goes on with the wrapped sum,
\* with them (debug profile) it panics there and the store is as before.
OnOverflow(completed, panicked) ==
    IF completed.overflowed THEN {completed, panicked} ELSE {completed}

\* The collaborator calls made before a panic in get_then_increment_counter.
UntilPanic(trace) == SelectSeq(trace, LAMBDA e : e # "sign")

\* The call recorded in l panicked.
Panicked(l) ==
    \/ l.op = "authenticate" /\ l.result.kind = "Panic"
    \/ l.op = "call" /\ l.outcome.future = "panicked"
    \/ l.op = "decode" /\ l.result.kind = "Panic"

\* The record of a successful authentication in the history.
Returned(hist, application, result) ==
    IF result.kind = "Authentication"
    THEN [hist EXCEPT ![application] = Append(@, result.counter)]
    ELSE hist

\* No call is outstanding: &mut self is free for the next call.
Idle == [op |-> "idle"]

\* InMemoryStorage::new behind a fresh U2F::new
Init ==
    /\ application_keys = EmptyMap
    /\ counters = EmptyMap
    /\ last = Idle
    /\ returned = [a \in ApplicationParameter |-> << >>]

\* A direct call of U2F::register.  replaced is what HashMap::insert returned
\* (the handle of the credential it displaced), which register discards.
Register ==
    \E application \in ApplicationParameter, challenge \in ChallengeParameter,
       approve \in IoResultBool, rng \in RngOutcome :
        LET r == register(application_keys, application, challenge, approve, rng)
        IN /\ last = Idle
           /\ application_keys' = r.application_keys
           /\ last' = [op |-> "register", application |-> application,
                       challenge |-> challenge, approve |-> approve, rng |-> rng,
                       result |-> r.result, trace |-> r.trace,
                       replaced |-> IF /\ r.result.kind = "Registration"
                                       /\ application \in DOMAIN application_keys
                                    THEN Some(application_keys[application].handle)
                                    ELSE None]
           /\ UNCHANGED << counters, returned >>

\* A direct call of U2F::authenticate
Authenticate ==
    /\ last = Idle
    /\ \E application \in ApplicationParameter, challenge \in ChallengeParameter,
          key_handle \in KeyHandle, approve \in IoResultBool :
        LET completed == authenticate(application_keys, counters, application,
                                      challenge, key_handle, approve)
            panicked == [result |-> [kind |-> "Panic"], counters |-> counters,
                         overflowed |-> TRUE, trace |-> UntilPanic(completed.trace)]
        IN \E r \in OnOverflow(completed, panicked) :
           /\ WithinBound(r.counters)
           /\ counters' = r.counters
           /\ returned' = Returned(returned, application, r.result)
           /\ last' = [op |-> "authenticate", application |-> application,
                       challenge |-> challenge, key_handle |-> key_handle,
                       approve |-> approve, result |-> r.result, trace |-> r.trace]
           /\ UNCHANGED application_keys

\* A direct call of U2F::is_valid_key_handle
IsValidKeyHandle ==
    \E application \in ApplicationParameter, key_handle \in KeyHandle :
        /\ last = Idle
        /\ last' = [op |-> "is_valid_key_handle", application |-> application,
                    key_handle |-> key_handle,
                    result |-> is_valid_key_handle(application_keys, key_handle, application),
                    trace |-> << "retrieve_application_key" >>]
        /\ UNCHANGED << application_keys, counters, returned >>

\* A request served by Service::call
Call ==
    /\ last = Idle
    /\ \E req \in Request : \E env \in Env(req) :
        LET completed == call(application_keys, counters, req, env)
            panicked == [outcome |-> [future |-> "panicked"],
                         application_keys |-> application_keys, counters |-> counters,
                         overflowed |-> TRUE, trace |-> UntilPanic(completed.trace)]
        IN \E r \in OnOverflow(completed, panicked) :
           /\ WithinBound(r.counters)
           /\ application_keys' = r.application_keys
           /\ counters' = r.counters
           /\ returned' = IF r.outcome.future = "finished"
                          THEN Returned(returned, req.application, r.outcome.response)
                          ELSE returned
           /\ last' = [op |-> "call", req |-> req, env |-> env,
                       outcome |-> r.outcome, trace |-> r.trace]

\* The caller takes the outcome of the call; the exclusive borrow of the
\* authenticator ends and the next call may start.  Nothing follows a panic.
Return ==
    /\ last # Idle
    /\ ~Panicked(last)
    /\ last' = Idle
    /\ UNCHANGED << application_keys, counters, returned >>

Next == Register \/ Authenticate \/ IsValidKeyHandle \/ Call \/ Return

Spec == Init /\ [][Next]_vars

\* A store after long use: both applications are registered, the
\* application ALL_ZERO_HASH has authenticated U32_MAX or U32_MAX + 1 times
\* (its stored counter is one below the largest value, or the largest), the
\* other one never.  Of the long history of returned counters the most
\* recent one is kept.
InitLongRun ==
    /\ application_keys \in
           {[a \in ApplicationParameter |-> [application |-> a, handle |-> h[a], key |-> k[a]]] :
               h \in [ApplicationParameter -> GeneratedKeyHandle],
               k \in [ApplicationParameter -> Key]}
    /\ counters \in {[a \in {ALL_ZERO_HASH} |-> [hi |-> U32_MAX.hi, lo |-> lo]] :
                        lo \in (U32_MAX.lo - 1)..U32_MAX.lo}
    /\ last = Idle
    /\ returned = [a \in ApplicationParameter |->
                      IF a = ALL_ZERO_HASH
                      THEN << [hi |-> counters[a].hi, lo |-> counters[a].lo - 1] >>
                      ELSE << >>]

SpecLongRun == InitLongRun /\ [][Next]_vars

\* ------------------------------------------------------------------------
\* Properties
\* ------------------------------------------------------------------------

\* The store keys holds a credential of the application whose handle is
\* byte for byte the given one.
HoldsCredential(keys, application, handle) ==
    application \in DOMAIN keys /\ keys[application].handle = handle

\* The call just served is a direct register that returned a Registration.
Registered == last.op = "register" /\ last.result.kind = "Registration"

\* The call just served is call(req) with an Authenticate request of the
\* given control code.
ServedAuthenticate(l, control_code) ==
    /\ l.op = "call"
    /\ l.req.kind = "Authenticate"
    /\ l.req.control_code = control_code

\* C1: right after register(application, challenge) succeeds with
\* registration R, whatever the store held before,
\* is_valid_key_handle(R.keyHandle, application) is true.
C1_RegisteredHandleIsValid ==
    Registered =>
        is_valid_key_handle(application_keys, last.result.key_handle, last.application)

\* C1 witness: a registration that succeeded for an application that
\* already had a credential, with another application registered too.
C1_Witness ==
    /\ Registered
    /\ DOMAIN application_keys = ApplicationParameter
    /\ last.application \in DOMAIN counters

C3_CountersStrictlyIncrease ==
    \A a \in ApplicationParameter :
        /\ \A i, j \in 1..Len(returned[a]) :
               i < j => u32_lt(returned[a][i], returned[a][j])
        /\ Len(returned[a]) >= 1 => returned[a][1] = u32(0)
        /\ Len(returned[a]) >= 2 => returned[a][2] = u32(1)

\* C4: authenticate returns an Authentication, and call a
\* Response::Authentication, only when the store held a credential matching
\* the application and key handle of the request and approve_authentication
\* answered true; the Authentication has user_present = true and its
\* presence byte is 0x01.
C4_AuthenticationOnlyWhenApproved ==
    [][/\ (last'.op = "authenticate" /\ last'.result.kind = "Authentication") =>
            /\ HoldsCredential(application_keys, last'.application, last'.key_handle)
            /\ last'.approve = OkTrue
            /\ last'.result.user_present = TRUE
            /\ user_presence_byte(last'.result.user_present) = 1
       /\ (/\ last'.op = "call"
           /\ last'.outcome.future = "finished"
           /\ last'.outcome.response.kind = "Authentication") =>
            /\ last'.req.kind = "Authenticate"
            /\ HoldsCredential(application_keys, last'.req.application, last'.req.key_handle)
            /\ last'.env.approve = OkTrue
            /\ last'.outcome.response.user_present = TRUE
            /\ into_bytes(last'.outcome.response)[1] = 1]_vars

\* C4 witness: call answered with an Authentication.
C4_Witness ==
    /\ last.op = "call"
    /\ last.outcome.future = "finished"
    /\ last.outcome.response.kind = "Authentication"

\* C5: authenticate fails with InvalidKeyHandle whenever the store holds no
\* credential of the application with the presented handle (an empty store
\* included), and then the credentials and the counters are unchanged.
C5_UnknownHandleIsRefused ==
    [][(/\ last'.op = "authenticate"
        /\ ~HoldsCredential(application_keys, last'.application, last'.key_handle)) =>
            /\ last'.result.kind = "InvalidKeyHandle"
            /\ application_keys' = application_keys
            /\ counters' = counters]_vars

\* C5 witness: authenticate was refused for a full-length handle while the
\* application holds a credential with another handle.
C5_Witness ==
    /\ last.op = "authenticate"
    /\ last.result.kind = "InvalidKeyHandle"
    /\ last.application \in DOMAIN application_keys
    /\ Len(last.key_handle) = MAX_KEY_HANDLE_LEN

\* C6: authenticate with a valid key handle and approve_authentication
\* answering false fails with ApprovalRequired; the counter of the
\* application is neither created nor incremented and nothing is signed.
C6_DeniedAuthenticationLeavesCounter ==
    [][(/\ last'.op = "authenticate"
        /\ HoldsCredential(application_keys, last'.application, last'.key_handle)
        /\ last'.approve = OkFalse) =>
            /\ last'.result.kind = "ApprovalRequired"
            /\ counters' = counters
            /\ \A i \in 1..Len(last'.trace) :
                   last'.trace[i] \notin {"get_then_increment_counter", "sign"}]_vars

\* C6 witness: authenticate was denied for an application that has a
\* credential and no counter yet.
C6_Witness ==
    /\ last.op = "authenticate"
    /\ last.result.kind = "ApprovalRequired"
    /\ HoldsCredential(application_keys, last.application, last.key_handle)
    /\ last.application \notin DOMAIN counters

\* C7: register with approve_registration answering false fails with
\* ApprovalRequired; the credentials and the counters are unchanged and no
\* key is generated.
C7_DeniedRegistrationStoresNothing ==
    [][(last'.op = "register" /\ last'.approve = OkFalse) =>
            /\ last'.result.kind = "ApprovalRequired"
            /\ application_keys' = application_keys
            /\ counters' = counters
            /\ \A i \in 1..Len(last'.trace) :
                   last'.trace[i] \notin {"generate_application_key", "add_application_key"}]_vars

\* C7 witness: register was denied although the generator was ready to
\* give a key, for an application without a credential.
C7_Witness ==
    /\ last.op = "register"
    /\ last.result.kind = "ApprovalRequired"
    /\ last.rng.ok
    /\ last.application \notin DOMAIN application_keys

\* C8: call(Authenticate, CheckOnly) answers TestOfUserPresenceNotSatisfied
\* (0x6985) if and only if the key handle is valid for the application, and
\* InvalidKeyHandle (0x6A80) otherwise; it never answers with an
\* Authentication.
C8_CheckOnlyReportsValidity ==
    [][ServedAuthenticate(last', "CheckOnly") =>
        LET held == HoldsCredential(application_keys, last'.req.application,
                                    last'.req.key_handle)
        IN /\ last'.outcome.future = "finished"
           /\ last'.outcome.response.kind # "Authentication"
           /\ (last'.outcome.response.kind = "TestOfUserPresenceNotSatisfied") = held
           /\ (last'.outcome.response.kind = "InvalidKeyHandle") = ~held
           /\ into_bytes(last'.outcome.response)
                  = IF held THEN << 105, 133 >> ELSE << 106, 128 >>]_vars

\* C8 witness: CheckOnly was answered for a valid handle.
C8_Witness ==
    /\ ServedAuthenticate(last, "CheckOnly")
    /\ HoldsCredential(application_keys, last.req.application, last.req.key_handle)

\* C9: call(Authenticate, DontEnforceUserPresenceAndSign) always answers
\* TestOfUserPresenceNotSatisfied (0x6985), whether or not the key handle is
\* valid and whatever the user-presence collaborator would answer.
C9_DontEnforceIsRefused ==
    ServedAuthenticate(last, "DontEnforceUserPresenceAndSign") =>
        /\ last.outcome = finished([kind |-> "TestOfUserPresenceNotSatisfied"])
        /\ into_bytes(last.outcome.response) = << 105, 133 >>

\* C9 witness: DontEnforceUserPresenceAndSign was served with a valid
\* handle and a user ready to approve.
C9_Witness ==
    /\ ServedAuthenticate(last, "DontEnforceUserPresenceAndSign")
    /\ HoldsCredential(application_keys, last.req.application, last.req.key_handle)
    /\ last.env.approve = OkTrue

\* C10: in every store state, call(GetVersion) then into_bytes gives the 8
\* bytes 55 32 46 5F 56 32 90 00.
C10_GetVersionBytes ==
    (last.op = "call" /\ last.req.kind = "GetVersion") =>
        /\ last.outcome.future = "finished"
        /\ into_bytes(last.outcome.response) = << 85, 50, 70, 95, 86, 50, 144, 0 >>

\* C10 witness: GetVersion was served with credentials and a counter in
\* the store.
C10_Witness ==
    /\ last.op = "call"
    /\ last.req.kind = "GetVersion"
    /\ DOMAIN application_keys = ApplicationParameter
    /\ DOMAIN counters # {}

\* The collaborator call named is among those of the call recorded in l.
Consulted(l, collaborator) == \E i \in 1..Len(l.trace) : l.trace[i] = collaborator

\* C11: call(Authenticate, EnforceUserPresenceAndSign) turns every error of
\* authenticate into a status word: ApprovalRequired into 0x6985,
\* InvalidKeyHandle into 0x6A80, Io (and Signing, which has no value) into
\* 0x6F00; the future never fails for this request.
C11_EnforceMapsErrorsToStatusWords ==
    [][ServedAuthenticate(last', "EnforceUserPresenceAndSign") =>
        LET held == HoldsCredential(application_keys, last'.req.application,
                                    last'.req.key_handle)
            answer == last'.env.approve
        IN /\ last'.outcome.future = "finished"
           /\ ~held =>
                  /\ last'.outcome.response.kind = "InvalidKeyHandle"
                  /\ into_bytes(last'.outcome.response) = << 106, 128 >>
           /\ (held /\ answer = OkFalse) =>
                  /\ last'.outcome.response.kind = "TestOfUserPresenceNotSatisfied"
                  /\ into_bytes(last'.outcome.response) = << 105, 133 >>
           /\ (held /\ answer = IoErr) =>
                  /\ last'.outcome.response.kind = "UnknownError"
                  /\ into_bytes(last'.outcome.response) = << 111, 0 >>]_vars

\* C11 witness: EnforceUserPresenceAndSign was served for a valid handle
\* while the user-presence collaborator failed with an I/O error.
C11_Witness ==
    /\ ServedAuthenticate(last, "EnforceUserPresenceAndSign")
    /\ HoldsCredential(application_keys, last.req.application, last.req.key_handle)
    /\ last.env.approve = IoErr
    /\ Consulted(last, "approve_authentication")

\* The call recorded in l is a call(req) in which a collaborator that was
\* asked answered with an I/O error.
MetIoError(l) ==
    /\ l.op = "call"
    /\ \/ /\ l.env.approve = IoErr
          /\ Consulted(l, "approve_registration") \/ Consulted(l, "approve_authentication")
       \/ Consulted(l, "generate_application_key") /\ ~l.env.rng.ok
       \/ Consulted(l, "wink") /\ l.env.wink = IoErr

\* C12 as stated: for every request kind, when a collaborator returns an
\* I/O error, call completes with the UnknownError response (0x6F00) and
\* never with a failed future.
C12_IoErrorsBecomeUnknownError ==
    MetIoError(last) =>
        /\ last.outcome = finished([kind |-> "UnknownError"])
        /\ into_bytes(last.outcome.response) = << 111, 0 >>

\* C17 as stated: every get_then_increment_counter(app), the first one for
\* an application without a counter included, returns the value stored
\* before the call (0 if absent) and leaves the stored counter equal to the
\* returned value plus 1.
C17_CounterStoredIsReturnedPlusOne ==
    [][(/\ last'.op = "authenticate"
        /\ last'.result.kind = "Authentication"
        /\ Consulted(last', "get_then_increment_counter")) =>
            LET before == IF last'.application \in DOMAIN counters
                          THEN counters[last'.application] ELSE u32(0)
            IN /\ last'.result.counter = before
               /\ last'.application \in DOMAIN counters'
               /\ counters'[last'.application] = u32_wrapping_add1(last'.result.counter)]_vars

\* C18 as stated: over any sequence of calls the stored counter of each
\* application never decreases, and the counters returned by successive
\* successful authenticate calls of one application do not decrease.
C18_CountersNeverDecrease ==
    [][/\ \A a \in DOMAIN counters :
              /\ a \in DOMAIN counters'
              /\ ~u32_lt(counters'[a], counters[a])
       /\ \A a \in ApplicationParameter :
              (Len(returned[a]) > 0 /\ Len(returned'[a]) > Len(returned[a])) =>
                  ~u32_lt(returned'[a][Len(returned'[a])], returned[a][Len(returned[a])])]_vars

\* C19: in every reachable store state, is_valid_key_handle(handle, app) is
\* true if and only if the store holds a credential whose application is
\* app and whose key handle has the length and the bytes of handle.
C19_ValidIffStored ==
    last.op = "is_valid_key_handle" =>
        last.result
            = (/\ last.application \in DOMAIN application_keys
               /\ application_keys[last.application].application = last.application
               /\ Len(application_keys[last.application].handle) = Len(last.key_handle)
               /\ \A i \in 1..Len(last.key_handle) :
                      application_keys[last.application].handle[i] = last.key_handle[i])

\* C19 witness: is_valid_key_handle answered false for a handle of the
\* length of the stored one that differs from it in its last byte only.
C19_Witness ==
    /\ last.op = "is_valid_key_handle"
    /\ ~last.result
    /\ last.application \in DOMAIN application_keys
    /\ LET stored == application_keys[last.application].handle
       IN /\ Len(stored) = Len(last.key_handle)
          /\ {i \in 1..Len(stored) : stored[i] # last.key_handle[i]} = {Len(stored)}

\* The message is application || 0x01 || counter (4 bytes, big-endian) || challenge.
IsAuthenticationMessage(message, application, counter, challenge) ==
    /\ Len(message) = SHA256HashLen + 1 + 4 + SHA256HashLen
    /\ SubSeq(message, 1, SHA256HashLen) = application
    /\ message[SHA256HashLen + 1] = 1
    /\ \A i \in 2..5 : message[SHA256HashLen + i] \in 0..255
    /\ message[SHA256HashLen + 2] * 256 + message[SHA256HashLen + 3] = counter.hi
    /\ message[SHA256HashLen + 4] * 256 + message[SHA256HashLen + 5] = counter.lo
    /\ SubSeq(message, SHA256HashLen + 6, Len(message)) = challenge

\* C20: in every successful authenticate the signed message is exactly
\* application || 0x01 || counter (4 bytes big-endian) || challenge, with
\* the application and challenge of the request and the counter returned in
\* the Authentication, and it is signed with the private key of the
\* credential registered under the presented key handle.
C20_AuthenticationSignsRequest ==
    [][/\ (last'.op = "authenticate" /\ last'.result.kind = "Authentication") =>
            /\ IsAuthenticationMessage(last'.result.signature.message, last'.application,
                                       last'.result.counter, last'.challenge)
            /\ HoldsCredential(application_keys, last'.application, last'.key_handle)
            /\ last'.result.signature.signer = application_keys[last'.application].key
       /\ (/\ last'.op = "call"
           /\ last'.outcome.future = "finished"
           /\ last'.outcome.response.kind = "Authentication") =>
            /\ IsAuthenticationMessage(last'.outcome.response.signature.message,
                                       last'.req.application,
                                       last'.outcome.response.counter, last'.req.challenge)
            /\ HoldsCredential(application_keys, last'.req.application, last'.req.key_handle)
            /\ last'.outcome.response.signature.signer
                   = application_keys[last'.req.application].key]_vars

\* C20 witness: an authentication succeeded with a counter whose four bytes
\* differ (0xFFFFFFFE) while the two applications hold different keys.
C20_Witness ==
    /\ last.op = "authenticate"
    /\ last.result.kind = "Authentication"
    /\ last.result.counter = [hi |-> U32_MAX.hi, lo |-> U32_MAX.lo - 1]
    /\ last.application # last.challenge
    /\ \A a \in ApplicationParameter \ {last.application} :
           application_keys[a].key # application_keys[last.application].key

\* An APDU in extended length encoding: CLA INS P1 P2 and what follows.
Apdu(command_code, parameter1, parameter2, tail) ==
    << 0, command_code, parameter1, parameter2 >> \o tail

\* The three-byte Lc field for n bytes of request data.
ExtendedLc(n) == << 0, n \div 256, n % 256 >>

\* Request data of Register: challenge then application.
RegisterData(challenge, application) == challenge \o application

\* Request data of Authenticate: challenge, application, the length byte
\* and the key handle bytes.
AuthenticateData(challenge, application, key_handle_len, key_handle_bytes) ==
    challenge \o application \o << key_handle_len >> \o key_handle_bytes

\* A string one byte longer than the longest key handle.
oversized_key_handle == [i \in 1..(MAX_KEY_HANDLE_LEN + 1) |-> 0]

\* What may follow the header in the inputs decode is applied to: the
\* shapes without data, Register and Authenticate bodies with and without
\* Le, and bodies whose length fields disagree with the bytes present.
DecodeTail ==
    {<< >>, << 0 >>, << 0, 0 >>, << 0, 0, 0 >>, << 0, 1, 0 >>, << 1, 0, 0 >>,
     << 0, 0, 5, 1 >>, << 0, 0, 0, 1 >>, << 0, 0, 1, 9, 0, 0, 0, 0 >>}
    \cup {ExtendedLc(2 * SHA256HashLen) \o RegisterData(OTHER_HASH, a) \o le :
             a \in ApplicationParameter,
             le \in {<< >>, << 0 >>, << 0, 0 >>, << 0, 0, 0 >>, << 0, 0, 0, 0 >>}}
    \cup {ExtendedLc(2 * SHA256HashLen + 1) \o RegisterData(OTHER_HASH, ALL_ZERO_HASH)}
    \cup {ExtendedLc(2 * SHA256HashLen + 1 + Len(h))
              \o AuthenticateData(OTHER_HASH, a, Len(h), h) \o le :
             a \in ApplicationParameter,
             h \in {all_zero_key_handle, last_byte_key_handle, short_key_handle,
                    << >>, oversized_key_handle},
             le \in {<< >>, << 0, 0 >>}}
    \cup {ExtendedLc(2 * SHA256HashLen + 1)
              \o AuthenticateData(OTHER_HASH, ALL_ZERO_HASH, 5, << >>)}

\* The byte strings decode is applied to.
DecodeInput ==
    {Apdu(command_code, parameter1, parameter2, tail) :
        command_code \in {REGISTER_COMMAND_CODE, AUTHENTICATE_COMMAND_CODE,
                          VERSION_COMMAND_CODE, 4, 64, 192},
        parameter1 \in {0, AUTH_FLAG_TUP, AUTH_ENFORCE, AUTH_CHECK_ONLY, 8},
        parameter2 \in {0, 1},
        tail \in DecodeTail}
    \cup {<< 0, VERSION_COMMAND_CODE, 0 >>}

\* Request::decode(data) on a byte string handed over by the transport.
Decode ==
    /\ last = Idle
    /\ \E data \in DecodeInput :
           last' = [op |-> "decode", data |-> data, result |-> decode(data)]
    /\ UNCHANGED << application_keys, counters, returned >>

NextDecode == Decode \/ Return

SpecDecode == Init /\ [][NextDecode]_vars

\* C13 as stated: for every input of at least 4 bytes Request::decode
\* returns a request or an error value; no input reaches a panic, a failed
\* assertion or an unwrap on a failed read.
C13_DecodeNeverPanics ==
    (last.op = "decode" /\ Len(last.data) >= 4) => last.result.kind \in {"Ok", "Err"}

\* The bytes are an Authenticate APDU with P2 = 0: Lc covers the two
\* parameters, the length byte and a key handle of 1..128 bytes, and Le is
\* absent or two bytes long.
IsAuthenticateApdu(data) ==
    /\ Len(data) > 7 + 2 * SHA256HashLen
    /\ data[2] = 2
    /\ data[4] = 0
    /\ data[5] = 0
    /\ data[7 + 2 * SHA256HashLen + 1] \in 1..MAX_KEY_HANDLE_LEN
    /\ data[6] * 256 + data[7] = 2 * SHA256HashLen + 1 + data[7 + 2 * SHA256HashLen + 1]
    /\ Len(data) - 7 - (data[6] * 256 + data[7]) \in {0, 2}

\* C14 as stated: decode of an Authenticate APDU (INS 0x02, P2 = 0) maps
\* P1 = 0x07 to CheckOnly, P1 = 0x03 to EnforceUserPresenceAndSign and
\* P1 = 0x08 to DontEnforceUserPresenceAndSign.
C14_ControlByteMapping ==
    (last.op = "decode" /\ IsAuthenticateApdu(last.data) /\ last.data[3] \in {7, 3, 8}) =>
        /\ last.result.kind = "Ok"
        /\ last.result.request.kind = "Authenticate"
        /\ last.result.request.control_code
               = CASE last.data[3] = 7 -> "CheckOnly"
                   [] last.data[3] = 3 -> "EnforceUserPresenceAndSign"
                   [] last.data[3] = 8 -> "DontEnforceUserPresenceAndSign"

\* The byte counts fit an extended-length shape: the header is followed by
\* 0x00 b1 b2 alone, or by a three-byte Lc, that many bytes, and no Le or a
\* two-byte Le.
IsWellFormedShape(data) ==
    /\ Len(data) >= 7
    /\ data[5] = 0
    /\ \/ Len(data) = 7
       \/ /\ data[6] * 256 + data[7] > 0
          /\ Len(data) - 7 - (data[6] * 256 + data[7]) \in {0, 2}

\* C15 as stated: decode of an otherwise well-formed APDU whose INS is not
\* 0x01, 0x02 or 0x03 and lies outside [0x40, 0xBF] yields an error (the
\* error RequestInstructionNotSupported, status word 0x6D00).
C15_UnknownInstructionIsAnError ==
    (/\ last.op = "decode"
     /\ IsWellFormedShape(last.data)
     /\ last.data[2] \notin {1, 2, 3}
     /\ last.data[2] \notin 64..191) =>
        last.result.kind = "Err"

\* The byte counts fit no extended-length shape: the Lc field declares
\* more bytes than follow it, or the bytes left after the request data
\* number something other than 0, 2 or 3.
HasInconsistentLengths(data) ==
    /\ Len(data) >= 8
    /\ data[5] = 0
    /\ data[6] * 256 + data[7] > 0
    /\ \/ data[6] * 256 + data[7] > Len(data) - 7
       \/ Len(data) - 7 - (data[6] * 256 + data[7]) \notin {0, 2, 3}

\* C16 as stated: decode fails with a length error whenever the byte
\* counts are inconsistent with the extended-length shapes.
C16_InconsistentLengthsAreAnError ==
    (last.op = "decode" /\ HasInconsistentLengths(last.data)) => last.result.kind = "Err"

\* The call just served is call(req) with a Register request that completed
\* with a Registration.
ServedRegistration(l) ==
    /\ l.op = "call"
    /\ l.req.kind = "Register"
    /\ l.outcome.future = "finished"
    /\ l.outcome.response.kind = "Registration"

\* The message is 0x00 || application || challenge || key_handle || public_key.
IsRegistrationMessage(message, application, challenge, key_handle, public_key) ==
    /\ Len(message) = 1 + 2 * SHA256HashLen + Len(key_handle) + Len(public_key)
    /\ message[1] = 0
    /\ SubSeq(message, 2, 1 + SHA256HashLen) = application
    /\ SubSeq(message, 2 + SHA256HashLen, 1 + 2 * SHA256HashLen) = challenge
    /\ SubSeq(message, 2 + 2 * SHA256HashLen, 1 + 2 * SHA256HashLen + Len(key_handle))
           = key_handle
    /\ SubSeq(message, 2 + 2 * SHA256HashLen + Len(key_handle), Len(message)) = public_key

\* C21: in every successful register the message signed with the
\* attestation key is exactly 0x00 || application || challenge || keyHandle
\* || publicKey, keyHandle and publicKey being the values returned in the
\* Registration and keyHandle the handle of the credential just stored.
C21_RegistrationSignsRequest ==
    [][/\ (last'.op = "register" /\ last'.result.kind = "Registration") =>
            /\ last'.result.signature.signer = ATTESTATION_KEY
            /\ IsRegistrationMessage(last'.result.signature.message, last'.application,
                                     last'.challenge, last'.result.key_handle,
                                     last'.result.user_public_key)
            /\ Len(last'.result.user_public_key) = PublicKeyLen
            /\ HoldsCredential(application_keys', last'.application, last'.result.key_handle)
       /\ ServedRegistration(last') =>
            /\ last'.outcome.response.signature.signer = ATTESTATION_KEY
            /\ IsRegistrationMessage(last'.outcome.response.signature.message,
                                     last'.req.application, last'.req.challenge,
                                     last'.outcome.response.key_handle,
                                     last'.outcome.response.user_public_key)
            /\ HoldsCredential(application_keys', last'.req.application,
                               last'.outcome.response.key_handle)]_vars

\* C21 witness: a registration succeeded with a challenge different from
\* the application and a handle that is not all zero.
C21_Witness ==
    /\ Registered
    /\ last.challenge # last.application
    /\ last.result.key_handle = last_byte_key_handle
    /\ application_keys[last.application].handle = last_byte_key_handle

\* The order of the collaborator steps of a complete authenticate.
AuthenticateSteps ==
    << "retrieve_application_key", "approve_authentication",
       "get_then_increment_counter", "sign" >>

\* C22: within one authenticate the collaborator steps occur in the order
\* lookup, approval, counter, signing; approve_authentication is invoked
\* only after the lookup found a credential and get_then_increment_counter
\* only after the approval returned true.
C22_AuthenticateStepOrder ==
    [][\A l \in {last'} :
          (l.op = "authenticate" \/ ServedAuthenticate(l, "EnforceUserPresenceAndSign")) =>
              LET application == IF l.op = "call" THEN l.req.application ELSE l.application
                  key_handle == IF l.op = "call" THEN l.req.key_handle ELSE l.key_handle
                  approve == IF l.op = "call" THEN l.env.approve ELSE l.approve
                  found == HoldsCredential(application_keys, application, key_handle)
              IN /\ \E n \in 1..Len(AuthenticateSteps) :
                        l.trace = SubSeq(AuthenticateSteps, 1, n)
                 /\ Consulted(l, "approve_authentication") => found
                 /\ Consulted(l, "get_then_increment_counter") =>
                        found /\ approve = OkTrue
                 /\ counters' # counters => Consulted(l, "get_then_increment_counter")]_vars

\* C22 witness: an authenticate went through all four steps.
C22_Witness ==
    /\ last.op = "authenticate"
    /\ last.trace = AuthenticateSteps
    /\ last.approve = OkTrue

\* The request changes nothing and signs nothing: GetVersion, Wink,
\* Authenticate/CheckOnly or Authenticate/DontEnforceUserPresenceAndSign.
IsReadOnlyRequest(req) ==
    \/ req.kind \in {"GetVersion", "Wink"}
    \/ /\ req.kind = "Authenticate"
       /\ req.control_code \in {"CheckOnly", "DontEnforceUserPresenceAndSign"}

\* C23: call with GetVersion, Wink, Authenticate/CheckOnly or
\* Authenticate/DontEnforceUserPresenceAndSign leaves the credentials and
\* every counter unchanged and never invokes approve_registration,
\* approve_authentication or a signing operation.
C23_ReadOnlyRequestsTouchNothing ==
    [][(last'.op = "call" /\ IsReadOnlyRequest(last'.req)) =>
          /\ application_keys' = application_keys
          /\ counters' = counters
          /\ \A i \in 1..Len(last'.trace) :
                 last'.trace[i] \notin {"approve_registration", "approve_authentication",
                                        "get_then_increment_counter", "sign", "attest"}]_vars

\* C23 witness: CheckOnly was served for a valid handle of an application
\* that has a counter, while the user would have approved.
C23_Witness ==
    /\ ServedAuthenticate(last, "CheckOnly")
    /\ HoldsCredential(application_keys, last.req.application, last.req.key_handle)
    /\ last.req.application \in DOMAIN counters
    /\ last.env.approve = OkTrue

\* C24: the store holds at most one credential per application: after a
\* successful registration R2 of an application whose credential R1 has a
\* different key handle, R2.keyHandle is valid and R1.keyHandle is not:
\* authenticate with R1.keyHandle fails with InvalidKeyHandle.
C24_ReRegistrationReplaces ==
    [][(/\ last'.op = "register"
        /\ last'.result.kind = "Registration"
        /\ last'.application \in DOMAIN application_keys
        /\ application_keys[last'.application].handle # last'.result.key_handle) =>
            LET application == last'.application
                R1 == application_keys[application].handle
                R2 == last'.result.key_handle
            IN /\ is_valid_key_handle(application_keys', R2, application)
               /\ ~is_valid_key_handle(application_keys', R1, application)
               /\ \A challenge \in ChallengeParameter, approve \in IoResultBool :
                      authenticate(application_keys', counters', application, challenge,
                                   R1, approve).result.kind = "InvalidKeyHandle"]_vars

\* C24 witness: a registration succeeded that displaced a credential of the
\* same application with another key handle.
C24_Witness ==
    /\ Registered
    /\ last.replaced.is_some
    /\ last.replaced.value # last.result.key_handle

\* C25: a counter, once it exists, is never deleted, and register
\* (re-registration included) leaves every counter unchanged, so that the
\* next authenticate of the application returns the stored counter.
C25_RegisterKeepsCounters ==
    [][/\ \A a \in DOMAIN counters : a \in DOMAIN counters'
       /\ (last'.op = "register" \/ (last'.op = "call" /\ last'.req.kind = "Register")) =>
              counters' = counters
       /\ (/\ last'.op = "authenticate"
           /\ last'.result.kind = "Authentication"
           /\ last'.application \in DOMAIN counters) =>
              last'.result.counter = counters[last'.application]]_vars

\* C25 witness: an application that has authenticated twice before
\* registered again and its counter is still there.
C25_Witness ==
    /\ ServedRegistration(last)
    /\ last.req.application \in DOMAIN counters
    /\ counters[last.req.application] = u32(1)

\* C26: an authenticate for application A changes at most the counter of
\* A: the counters of the other applications and the credentials are
\* unchanged, whatever the outcome.
C26_AuthenticateTouchesOwnCounterOnly ==
    [][\A l \in {last'} :
          (l.op = "authenticate" \/ (l.op = "call" /\ l.req.kind = "Authenticate")) =>
              LET A == IF l.op = "call" THEN l.req.application ELSE l.application
              IN /\ application_keys' = application_keys
                 /\ \A b \in ApplicationParameter \ {A} :
                        /\ b \in DOMAIN counters' <=> b \in DOMAIN counters
                        /\ b \in DOMAIN counters => counters'[b] = counters[b]]_vars

\* C26 witness: an authenticate succeeded for one application while
\* another application has a counter.
C26_Witness ==
    /\ last.op = "authenticate"
    /\ last.result.kind = "Authentication"
    /\ \E b \in DOMAIN counters : b # last.application

\* C27: when register returns an error the credentials are those from
\* before the call; the credentials change only by a register that returns
\* a Registration, and then only the credential of its application.
C27_FailedRegistrationStoresNothing ==
    [][/\ (last'.op = "register" /\ last'.result.kind # "Registration") =>
              application_keys' = application_keys
       /\ (last'.op = "call" /\ last'.req.kind = "Register" /\ ~ServedRegistration(last')) =>
              application_keys' = application_keys
       /\ application_keys' # application_keys =>
              /\ (last'.op = "register" /\ last'.result.kind = "Registration")
                     \/ ServedRegistration(last')
              /\ LET application == IF last'.op = "call" THEN last'.req.application
                                    ELSE last'.application
                 IN \A b \in DOMAIN application_keys \ {application} :
                        /\ b \in DOMAIN application_keys'
                        /\ application_keys'[b] = application_keys[b]]_vars

\* C27 witness: a register failed with an I/O error of the key generation
\* after the user approved, while the store holds a credential.
C27_Witness ==
    /\ last.op = "register"
    /\ last.result.kind = "Io"
    /\ last.approve = OkTrue
    /\ Consulted(last, "generate_application_key")
    /\ application_keys # EmptyMap

\* Two runs of the authenticator side by side, for claims that compare runs.
Run == {1, 2}

\* The request of the second run: the request of the first one with
\* another challenge where it carries one.
WithChallenge(req, challenge) ==
    IF req.kind \in {"Register", "Authenticate"}
    THEN [req EXCEPT !.challenge = challenge]
    ELSE req

\* What the caller sees of an outcome: whether the future failed, the kind
\* of the response and the status word that ends its bytes.
StatusOutcome(outcome) ==
    IF outcome.future = "finished"
    THEN LET bytes == into_bytes(outcome.response)
         IN [future |-> outcome.future, kind |-> outcome.response.kind,
             status |-> SubSeq(bytes, Len(bytes) - 1, Len(bytes))]
    ELSE [future |-> outcome.future]

\* Both runs start from InMemoryStorage::new.
InitTwoRuns ==
    /\ application_keys = [run \in Run |-> EmptyMap]
    /\ counters = [run \in Run |-> EmptyMap]
    /\ last = Idle
    /\ returned = [a \in ApplicationParameter |-> << >>]

\* Service::call in both runs: the same request up to its challenge, and
\* the same answers of the collaborators (the same generated key and handle
\* included).
CallTwoRuns ==
    /\ last = Idle
    /\ \E req \in Request, challenge \in ChallengeParameter : \E env \in Env(req) :
        LET reqs == [run \in Run |-> IF run = 1 THEN req ELSE WithChallenge(req, challenge)]
            served == [run \in Run |->
                          call(application_keys[run], counters[run], reqs[run], env)]
        IN /\ \A run \in Run : WithinBound(served[run].counters)
           /\ application_keys' = [run \in Run |-> served[run].application_keys]
           /\ counters' = [run \in Run |-> served[run].counters]
           /\ last' = [op |-> "call_two_runs", req |-> reqs, env |-> env,
                       outcome |-> [run \in Run |-> served[run].outcome]]
           /\ UNCHANGED returned

NextTwoRuns == CallTwoRuns \/ Return

SpecTwoRuns == InitTwoRuns /\ [][NextTwoRuns]_vars

\* C28: the challenge never influences stored state: two runs of the same
\* requests that differ only in the challenges have equal credentials and
\* equal counters after every request, and the same status outcome for it.
C28_ChallengeDoesNotInfluenceStore ==
    /\ application_keys[1] = application_keys[2]
    /\ counters[1] = counters[2]
    /\ last.op = "call_two_runs" =>
           StatusOutcome(last.outcome[1]) = StatusOutcome(last.outcome[2])

\* C28 witness: the two runs were given different challenges in a request
\* that authenticated successfully and returned a counter of 1.
C28_Witness ==
    /\ last.op = "call_two_runs"
    /\ last.req[1].kind = "Authenticate"
    /\ last.req[1].challenge # last.req[2].challenge
    /\ \A run \in Run :
           /\ last.outcome[run].future = "finished"
           /\ last.outcome[run].response.kind = "Authentication"
           /\ last.outcome[run].response.counter = u32(1)
    /\ last.outcome[1].response.signature # last.outcome[2].response.signature

\* C29 as stated: a GetVersion header (INS 0x03, P1 = P2 = 0) followed by
\* 0 bytes, by 2 bytes (Le = b1 b2) or by 3 bytes (0x00 b1 b2) decodes to
\* Request::GetVersion.
C29_GetVersionShapes ==
    (/\ last.op = "decode"
     /\ Len(last.data) \in {4, 6, 7}
     /\ SubSeq(last.data, 2, 4) = << 3, 0, 0 >>
     /\ Len(last.data) = 7 => last.data[5] = 0) =>
        last.result = DecodeOk([kind |-> "GetVersion"])

\* The value of the two bytes of the Lc field.
data_len(data) == data[6] * 256 + data[7]

\* C30 as stated: every key handle of a Request::Authenticate returned by
\* decode is 1 to 128 bytes long, and an APDU whose keyHandleLen byte is
\* greater than 128 is rejected with an error.
C30_DecodedKeyHandleLength ==
    /\ (/\ last.op = "decode"
        /\ last.result.kind = "Ok"
        /\ last.result.request.kind = "Authenticate") =>
            Len(last.result.request.key_handle) \in 1..MAX_KEY_HANDLE_LEN
    /\ (/\ last.op = "decode"
        /\ Len(last.data) > 7 + 2 * SHA256HashLen
        /\ last.data[2] = 2
        /\ last.data[3] \in {7, 3}
        /\ last.data[4] = 0
        /\ last.data[5] = 0
        /\ last.data[7 + 2 * SHA256HashLen + 1] > MAX_KEY_HANDLE_LEN
        /\ data_len(last.data) = 2 * SHA256HashLen + 1 + last.data[7 + 2 * SHA256HashLen + 1]
        /\ Len(last.data) - 7 - data_len(last.data) \in {0, 2}) =>
            last.result.kind = "Err"

\* C31 as stated: decode returns a Request::Authenticate only for P1 in
\* {0x07, 0x03, 0x08}; no other P1 (0x01 in particular) is decoded into a
\* control code.
C31_OnlyListedControlBytesDecode ==
    (/\ last.op = "decode"
     /\ last.result.kind = "Ok"
     /\ last.result.request.kind = "Authenticate") =>
        last.data[3] \in {7, 3, 8}

\* The 16-bit halves the counters of the encoded responses are built from:
\* the ends of the range, the byte borders and two values whose bytes differ.
CounterHalf == {0, 1, 255, 256, 4660, 22136, 65280, 65535}

\* The responses into_bytes is applied to: authentications over the
\* counter samples, and one response of every other kind.
ResponseInput ==
    {[kind |-> "Authentication", counter |-> [hi |-> hi, lo |-> lo],
      signature |-> sign(key, << >>), user_present |-> user_present] :
        hi \in CounterHalf, lo \in CounterHalf, key \in Key, user_present \in BOOLEAN}
    \cup {[kind |-> "Registration", user_public_key |-> public_key_to_raw(key),
           key_handle |-> handle, attestation_certificate |-> get_attestation_certificate,
           signature |-> attest(<< >>)] : key \in Key, handle \in GeneratedKeyHandle}
    \cup {[kind |-> "Version", version_string |-> get_version_string]}
    \cup {[kind |-> kind] :
             kind \in {"DidWink", "TestOfUserPresenceNotSatisfied", "InvalidKeyHandle",
                       "UnknownError"}}

\* Response::into_bytes(self) on a response handed to the transport.
IntoBytes ==
    /\ last = Idle
    /\ \E response \in ResponseInput :
           last' = [op |-> "into_bytes", response |-> response,
                    bytes |-> into_bytes(response)]
    /\ UNCHANGED << application_keys, counters, returned >>

NextIntoBytes == IntoBytes \/ Return

SpecIntoBytes == Init /\ [][NextIntoBytes]_vars

\* C32: into_bytes of an Authentication is the user presence byte, the
\* counter as 4 bytes big-endian, the signature and 0x90 0x00, for counters
\* over the whole unsigned 32-bit range; TestOfUserPresenceNotSatisfied,
\* InvalidKeyHandle and UnknownError encode to exactly the two bytes of
\* 0x6985, 0x6A80 and 0x6F00.
C32_ResponseBytes ==
    last.op = "into_bytes" =>
        LET response == last.response
            bytes == last.bytes
        IN /\ response.kind = "Authentication" =>
                  LET signature_bytes == Signature_as_ref(response.signature)
                  IN /\ Len(bytes) = 1 + 4 + Len(signature_bytes) + 2
                     /\ bytes[1] = IF response.user_present THEN 1 ELSE 0
                     /\ \A i \in 2..5 : bytes[i] \in 0..255
                     /\ bytes[2] * 256 + bytes[3] = response.counter.hi
                     /\ bytes[4] * 256 + bytes[5] = response.counter.lo
                     /\ SubSeq(bytes, 6, 5 + Len(signature_bytes)) = signature_bytes
                     /\ SubSeq(bytes, Len(bytes) - 1, Len(bytes)) = << 144, 0 >>
           /\ response.kind = "TestOfUserPresenceNotSatisfied" => bytes = << 105, 133 >>
           /\ response.kind = "InvalidKeyHandle" => bytes = << 106, 128 >>
           /\ response.kind = "UnknownError" => bytes = << 111, 0 >>

\* C32 witness: an Authentication with counter 0x12345678, whose four bytes
\* all differ, was encoded.
C32_Witness ==
    /\ last.op = "into_bytes"
    /\ last.response.kind = "Authentication"
    /\ last.response.counter = [hi |-> 4660, lo |-> 22136]
    /\ SubSeq(last.bytes, 2, 5) = << 18, 52, 86, 120 >>

====
